---- MODULE Spec2Model ----
(***************************************************************************)
(* ComputeFlareStdAtom (src/lammps/compute_flare_std_atom.cpp): the        *)
(* potential-file loader (constructor, settings, coeff, read_file, grab)   *)
(* and the per-step pipeline (compute_peratom, pack_reverse_comm,          *)
(* unpack_reverse_comm).                                                   *)
(*                                                                         *)
(* Doubles are held as integers counting halves (a double v is the integer *)
(* 2v), so that the division by 2 of read_file is exact, as it is on       *)
(* binary floating point.  Rounding of sums and products is not modelled.  *)
(***************************************************************************)
EXTENDS Integers, Sequences, FiniteSets, TLC

VARIABLES
  \* ---- the call being made and its inputs
  entry,            \* member function the host calls: constructor, coeff or read_file
  narg, arg,        \* the argument vector
  file,             \* the potential file on disk
  \* ---- loader state (members of ComputeFlareStdAtom)
  lpc,              \* position inside the loader
  err,              \* message of the error raised, "" when none
  allocated,
  n_species, n_max, l_max, beta_size, cutoff,
  n_descriptors,
  basis_function, cutoff_function,
  beta,             \* the beta array, "NULL" before memory->create
  overrun,          \* values grab stored past the end of beta
  beta_matrices,
  \* ---- per-step state, one copy per process
  view,             \* what the host hands each process: atoms, ghosts, neighbor list
  nmax,
  stds, desc_derv,
  pc,
  step,
  chan              \* reverse-communication buffers in flight

loadVars == <<entry, narg, arg, file, lpc, err, allocated, n_species, n_max, l_max,
              beta_size, cutoff, n_descriptors, basis_function, cutoff_function, beta,
              overrun, beta_matrices>>
stepVars == <<view, nmax, stds, desc_derv, pc, step, chan>>
vars == <<loadVars, stepVars>>

(***************************************************************************)
(* Bounds of the model.                                                    *)
(***************************************************************************)
MaxSpecies == 2      \* n_species declared by a file is in 1..MaxSpecies
MaxNMax == 1         \* n_max is in 1..MaxNMax
MaxLMax == 1         \* l_max is in 0..MaxLMax
MaxSkew == 1         \* declared beta_size is within MaxSkew of D(D+1)/2
MaxRaw == 1          \* the first raw value of a file is in -MaxRaw..MaxRaw
MaxPerLine == 2      \* values per line of the file body
MaxD == 3            \* files whose descriptor count exceeds MaxD are left out
MaxSurplus == 1      \* the body holds up to MaxSurplus values too many or too few
MaxBlankAt == 2      \* a blank line may stand before body line 1..MaxBlankAt
MaxCutoff == 2       \* cutoff is in 1..MaxCutoff
MaxArgs == 4         \* narg is in 0..MaxArgs
MaxAtoms == 2        \* atoms in the simulated system: 1..MaxAtoms
MaxGarbage == 1      \* an uninitialized double reads as 0 or as MaxGarbage
MaxSteps == 2        \* steps the host runs

(***************************************************************************)
(* Small helpers.                                                          *)
(***************************************************************************)
Min(a, b) == IF a < b THEN a ELSE b

RECURSIVE SumTo(_, _)
\* sum of f[0] .. f[n-1]
SumTo(f, n) == IF n <= 0 THEN 0 ELSE f[n - 1] + SumTo(f, n - 1)

(***************************************************************************)
(* Potential files.  A file is its five header lines, already split into   *)
(* fields, and the lines of its body, each a sequence of numeric tokens.   *)
(***************************************************************************)
\* n_descriptors as read_file computes it (int arithmetic)
NDescriptors(ns, nm, lm) ==
  LET n_radial == nm * ns
  IN  ((n_radial * (n_radial + 1)) \div 2) * (lm + 1)

\* beta_check with the lower triangle counted without the diagonal
BetaCheck_NoDiagonal(nd) == (nd * (nd - 1)) \div 2

\* beta_check as read_file computes it
BetaCheck(nd) == (nd * (nd + 1)) \div 2

\* D = (R(R+1)/2)(L+1) with R = n_max * n_species, and the number of entries
\* of the upper triangle of a D x D matrix: the numbers a file's author uses
DescriptorCount(ns, nm, lm) == (((nm * ns) * (nm * ns + 1)) \div 2) * (lm + 1)
Triangle(D) == (D * (D + 1)) \div 2

\* count tokens, the p-th (from 1) being base + p - 1: all different
Tokens(count, base) == [p \in 1..count |-> base + p - 1]

RECURSIVE Chunks(_, _)
\* toks cut into lines of k tokens, the last line holding the rest
Chunks(toks, k) ==
  IF Len(toks) = 0 THEN <<>>
  ELSE IF Len(toks) <= k THEN <<toks>>
  ELSE <<SubSeq(toks, 1, k)>> \o Chunks(SubSeq(toks, k + 1, Len(toks)), k)

\* lines with an empty line put before line b (b = 0: none)
WithBlank(lines, b) ==
  IF b = 0 \/ b > Len(lines) + 1 THEN lines
  ELSE SubSeq(lines, 1, b - 1) \o << <<>> >> \o SubSeq(lines, b, Len(lines))

RadialTokens == {"chebyshev", "bessel"}
CutoffTokens == {"quadratic", "cosine", "hard"}

Shapes ==
  {s \in [ns : 1..MaxSpecies, nm : 1..MaxNMax, lm : 0..MaxLMax] :
     DescriptorCount(s.ns, s.nm, s.lm) <= MaxD}

MakeFile(readable, radial, s, skew, cutfn, cut, base, k, surplus, b) ==
  LET bs    == Triangle(DescriptorCount(s.ns, s.nm, s.lm)) + skew
      count == bs * s.ns + surplus
  IN  [readable |-> readable, radial |-> radial,
       ns |-> s.ns, nm |-> s.nm, lm |-> s.lm, bs |-> bs,
       cutfn |-> cutfn, cutoff |-> cut,
       lines |-> WithBlank(Chunks(Tokens(IF count < 0 THEN 0 ELSE count, base), k), b)]

Files ==
  {MakeFile(TRUE, r, s, skew, c, cut, base, k, sp, b) :
     r \in RadialTokens, s \in Shapes, skew \in (0 - MaxSkew)..MaxSkew,
     c \in CutoffTokens, cut \in 1..MaxCutoff, base \in (0 - MaxRaw)..MaxRaw,
     k \in 1..MaxPerLine, sp \in (0 - MaxSurplus)..MaxSurplus, b \in 0..MaxBlankAt}

\* files with a consistent beta_size and a body of exactly the declared length
PlainFiles ==
  {MakeFile(rd, r, s, 0, c, cut, 1, 1, 0, 0) :
     rd \in BOOLEAN, r \in RadialTokens, s \in Shapes, c \in CutoffTokens,
     cut \in 1..MaxCutoff}

\* all tokens of the body in file order
RECURSIVE Flatten(_)
Flatten(lines) ==
  IF Len(lines) = 0 THEN <<>> ELSE Head(lines) \o Flatten(Tail(lines))

\* a valid potential file: readable, recognized identifiers, consistent beta_size,
\* a body of exactly beta_size * n_species values and no empty line
ValidFile(f) ==
  /\ f.readable
  /\ f.radial = "chebyshev"
  /\ f.cutfn \in {"quadratic", "cosine"}
  /\ f.bs = Triangle(DescriptorCount(f.ns, f.nm, f.lm))
  /\ Len(Flatten(f.lines)) = f.bs * f.ns
  /\ \A l \in 1..Len(f.lines) : Len(f.lines[l]) > 0

(***************************************************************************)
(* grab.                                                                   *)
(***************************************************************************)
\* atof of a numeric token, in halves
Atof(tok) == 2 * tok

\* what one pass of grab's outer loop appends to list for the text in the line
\* buffer: every token of the line; for a line without a token strtok returns
\* NULL and atof(NULL) is undefined: the process dies, or a 0.0 is stored
LineOutcomes(line) ==
  IF Len(line) = 0
    THEN {[crash |-> TRUE, vals |-> <<>>], [crash |-> FALSE, vals |-> <<0>>]}
    ELSE {[crash |-> FALSE, vals |-> [t \in 1..Len(line) |-> Atof(line[t])]]}

RECURSIVE GrabLoop(_, _, _, _, _)
\* the outcomes of grab's loop from line li of the body on, with vals stored so
\* far (list[0..Len(vals)-1]) and buf the line buffer: not yet written
\* (init FALSE) before the first fgets, else what strtok left of the last line
\* read (its first token only, strtok having put a NUL behind it)
GrabLoop(lines, n, li, buf, vals) ==
  IF Len(vals) >= n
    THEN {[crash |-> FALSE, vals |-> vals]}
  ELSE IF li > Len(lines) /\ ~buf.init
    \* fgets fails at once and strtok reads an uninitialized buffer: the
    \* process dies, or the buffer happens to hold a token
    THEN {[crash |-> TRUE, vals |-> vals]}
           \cup GrabLoop(lines, n, li, [init |-> TRUE, toks |-> <<0>>], vals)
  ELSE
    LET line == IF li <= Len(lines) THEN lines[li] ELSE buf.toks
        left == IF Len(line) = 0 THEN <<>> ELSE <<Head(line)>>
    IN  UNION {IF o.crash
                 THEN {[crash |-> TRUE, vals |-> vals]}
                 ELSE GrabLoop(lines, n, li + 1, [init |-> TRUE, toks |-> left],
                               vals \o o.vals)
               : o \in LineOutcomes(line)}

\* grab(fptr, n, list): the possible outcomes
grab(lines, n) == GrabLoop(lines, n, 1, [init |-> FALSE, toks |-> <<>>], <<>>)

(***************************************************************************)
(* The symmetric reconstruction of read_file.                              *)
(***************************************************************************)
ZeroMatrix(D) == [i \in 0..(D - 1) |-> [j \in 0..(D - 1) |-> 0]]

\* beta_val = beta[beta_count] / 2
Half(x) == x \div 2

\* the (i, j) loop body without the halving of off-diagonal values
SetEntry_NoHalving(m, i, j, raw) ==
  IF i = j
    THEN [m EXCEPT ![i][j] = raw]
    ELSE [m EXCEPT ![i][j] = raw, ![j][i] = raw]

\* the body of the (i, j) loop: the matrix after the assignment(s)
SetEntry(m, i, j, raw) ==
  IF i = j
    THEN [m EXCEPT ![i][j] = raw]
    ELSE [m EXCEPT ![i][j] = Half(raw), ![j][i] = Half(raw)]

RECURSIVE FillLoop(_, _, _, _, _, _)
\* the i, j loops of one species from (i, j) on; b is beta, bc is beta_count;
\* gives the finished matrix and the beta_count reached
FillLoop(m, D, i, j, b, bc) ==
  IF i >= D THEN [matrix |-> m, beta_count |-> bc]
  ELSE IF j >= D THEN FillLoop(m, D, i + 1, i + 1, b, bc)
  ELSE FillLoop(SetEntry(m, i, j, b[bc + 1]), D, i, j + 1, b, bc + 1)

RECURSIVE FillSpecies(_, _, _, _, _)
\* the k loop: beta_matrices after species k..ns-1 are pushed back
FillSpecies(acc, k, ns, D, st) ==
  IF k >= ns THEN acc
  ELSE LET r == FillLoop(ZeroMatrix(D), D, 0, 0, st.b, st.bc)
       IN  FillSpecies(Append(acc, r.matrix), k + 1, ns, D,
                       [b |-> st.b, bc |-> r.beta_count])

BetaMatrices(b, ns, D) == FillSpecies(<<>>, 0, ns, D, [b |-> b, bc |-> 0])

(***************************************************************************)
(* The loader as a state machine.                                          *)
(***************************************************************************)
\* error->all and error->one: the run aborts with the message
Raise(msg) == /\ err' = msg
              /\ lpc' = "error"

ArgVectors ==
  {a \in UNION {[1..n -> {"*", "1", "pot.flare"}] : n \in 0..MaxArgs} :
     /\ Len(a) >= 3 => a[3] = "pot.flare"
     /\ Len(a) >= 4 => \A q \in 4..Len(a) : a[q] = "1"}

\* the state of the members the per-step pipeline uses, untouched by the loader
StepIdle ==
  /\ view = <<>>
  /\ nmax = <<>>
  /\ stds = <<>>
  /\ desc_derv = <<>>
  /\ pc = <<>>
  /\ step = 0
  /\ chan = <<>>

\* the members before any file is read
Unloaded ==
  /\ err = ""
  /\ allocated \in {0, 1}     \* not set by the constructor
  /\ n_species = 0 /\ n_max = 0 /\ l_max = 0 /\ beta_size = 0 /\ cutoff = 0
  /\ n_descriptors = 0
  /\ basis_function = "unset"
  /\ cutoff_function = "unset"
  /\ beta = "NULL"
  /\ overrun = <<>>
  /\ beta_matrices = <<>>

InitLoad ==
  /\ \/ /\ entry = "read_file"
        /\ arg = <<>>
        /\ file \in Files
        /\ lpc = "read_file"
     \/ /\ entry \in {"constructor", "coeff"}
        /\ arg \in ArgVectors
        /\ file \in PlainFiles
        /\ lpc = entry
  /\ narg = Len(arg)
  /\ Unloaded
  /\ StepIdle

\* ComputeFlareStdAtom::ComputeFlareStdAtom up to and including settings(narg, arg)
settings ==
  /\ lpc = "constructor"
  /\ IF narg > 0
       THEN Raise("Illegal compute command")
       ELSE /\ lpc' = "coeff"
            /\ err' = err
  /\ UNCHANGED <<entry, narg, arg, file, allocated, n_species, n_max, l_max,
                 beta_size, cutoff, n_descriptors, basis_function,
                 cutoff_function, beta, overrun, beta_matrices>>
  /\ UNCHANGED stepVars

\* ComputeFlareStdAtom::coeff up to the call of read_file(arg[2])
coeff ==
  /\ lpc = "coeff"
  /\ allocated' = 1
  /\ IF narg # 3
       THEN Raise("Incorrect args for compute coefficients")
       ELSE IF arg[1] # "*" \/ arg[2] # "*"
       THEN Raise("Incorrect args for compute coefficients")
       ELSE /\ lpc' = "read_file"
            /\ err' = err
  /\ UNCHANGED <<entry, narg, arg, file, n_species, n_max, l_max,
                 beta_size, cutoff, n_descriptors, basis_function,
                 cutoff_function, beta, overrun, beta_matrices>>
  /\ UNCHANGED stepVars

\* read_file: open the file, read the five header lines, set n_descriptors and
\* check beta_size against it
read_file_header ==
  /\ lpc = "read_file"
  /\ IF ~file.readable
       THEN /\ Raise("Cannot open variance file")
            /\ UNCHANGED <<n_species, n_max, l_max, beta_size, cutoff, n_descriptors>>
       ELSE /\ n_species' = file.ns
            /\ n_max' = file.nm
            /\ l_max' = file.lm
            /\ beta_size' = file.bs
            /\ cutoff' = file.cutoff
            /\ n_descriptors' = NDescriptors(file.ns, file.nm, file.lm)
            /\ IF BetaCheck(n_descriptors') # file.bs
                 THEN Raise("Beta size doesn't match the number of descriptors.")
                 ELSE /\ lpc' = "set_functions"
                      /\ err' = err
  /\ UNCHANGED <<entry, narg, arg, file, allocated, basis_function,
                 cutoff_function, beta, overrun, beta_matrices>>
  /\ UNCHANGED stepVars

\* read_file: resolve the radial basis and the cutoff function
read_file_functions ==
  /\ lpc = "set_functions"
  /\ basis_function' = IF file.radial = "chebyshev" THEN "chebyshev"
                       ELSE basis_function
  /\ cutoff_function' = IF file.cutfn = "quadratic" THEN "quadratic_cutoff"
                        ELSE IF file.cutfn = "cosine" THEN "cos_cutoff"
                        ELSE cutoff_function
  /\ lpc' = "parse_beta"
  /\ UNCHANGED <<entry, narg, arg, file, err, allocated, n_species, n_max, l_max,
                 beta_size, cutoff, n_descriptors, beta, overrun, beta_matrices>>
  /\ UNCHANGED stepVars

\* read_file: create beta and grab beta_size * n_species values into it.  A
\* store past the end of beta is a heap overrun: the process dies or runs on.
read_file_beta ==
  /\ lpc = "parse_beta"
  /\ LET n == beta_size * n_species
     IN  \E o \in grab(file.lines, n) :
           /\ beta' = SubSeq(o.vals, 1, Min(n, Len(o.vals)))
           /\ overrun' = SubSeq(o.vals, n + 1, Len(o.vals))
           /\ \/ /\ ~o.crash
                 /\ lpc' = "fill"
              \/ /\ o.crash \/ Len(o.vals) > n
                 /\ lpc' = "crash"
  /\ UNCHANGED <<entry, narg, arg, file, err, allocated, n_species, n_max, l_max,
                 beta_size, cutoff, n_descriptors, basis_function,
                 cutoff_function, beta_matrices>>
  /\ UNCHANGED stepVars

\* read_file: fill in the beta matrices
read_file_fill ==
  /\ lpc = "fill"
  /\ beta_matrices' = BetaMatrices(beta, n_species, n_descriptors)
  /\ lpc' = "done"
  /\ UNCHANGED <<entry, narg, arg, file, err, allocated, n_species, n_max, l_max,
                 beta_size, cutoff, n_descriptors, basis_function,
                 cutoff_function, beta, overrun>>
  /\ UNCHANGED stepVars

NextLoad ==
  \/ settings
  \/ coeff
  \/ read_file_header
  \/ read_file_functions
  \/ read_file_beta
  \/ read_file_fill

SpecLoad == InitLoad /\ [][NextLoad]_vars

(***************************************************************************)
(* The per-step pipeline.  The system is natoms atoms on a line, atom g at *)
(* (g, 0, 0), cut by one domain boundary into the atoms of process 1 and   *)
(* those of process 2; each process holds the other's atoms as ghosts.     *)
(***************************************************************************)
Procs == {1, 2}
Peer(p) == 3 - p

\* the atoms, neighbor list and flags the host gives a process that owns nloc
\* of the n atoms, the first being atom `first`; the others follow as ghosts
MakeView(n, nloc, first, ns) ==
  LET tag == [k \in 1..n |-> ((first + k - 2) % n) + 1]
  IN  [nlocal |-> nloc, nghost |-> n - nloc, atom_nmax |-> n, newton |-> 1,
       tag |-> tag,
       x |-> [k \in 1..n |-> <<tag[k], 0, 0>>],
       type |-> [k \in 1..n |-> ((tag[k] - 1) % ns) + 1],
       inum |-> nloc,
       ilist |-> [k \in 1..nloc |-> k - 1],
       firstneigh |-> [k \in 1..nloc |->
                         [q \in 1..(n - 1) |-> IF q < k THEN q - 1 ELSE q]]]

\* the views of the two processes when atoms 1..bnd belong to process 1
Decomposed(n, bnd, ns) ==
  [p \in Procs |-> IF p = 1 THEN MakeView(n, bnd, 1, ns)
                   ELSE MakeView(n, n - bnd, bnd + 1, ns)]

\* the same atoms on a single process, no decomposition
Undecomposed(n, ns) == MakeView(n, n, 1, ns)

\* rsq of the pair (i, j), local indices
Rsq(v, i, j) ==
  LET delx == v.x[i + 1][1] - v.x[j + 1][1]
      dely == v.x[i + 1][2] - v.x[j + 1][2]
      delz == v.x[i + 1][3] - v.x[j + 1][3]
  IN  delx * delx + dely * dely + delz * delz

InCutoff(v, i, j, cut) == Rsq(v, i, j) < cut * cut

\* the neighbors of i inside the cutoff, in neighbor-list order
InnerList(v, i, cut) ==
  SelectSeq(v.firstneigh[i + 1], LAMBDA j : InCutoff(v, i, j, cut))

\* derivative of the descriptor nl of atom gi with respect to component comp
\* of its neighbor gj, as the descriptor library returns it
EnvDerv(gi, gj, comp, nl) == (gj - gi) * (comp + 1) + nl + 1

\* B2_env_dervs of atom i: three rows for each neighbor inside the cutoff, in
\* neighbor-list order, one column for each descriptor
B2_env_dervs(v, i, cut, D) ==
  LET inner == InnerList(v, i, cut)
  IN  [r \in 0..(3 * Len(inner) - 1) |->
         [nl \in 0..(D - 1) |->
            EnvDerv(v.tag[i + 1], v.tag[inner[(r \div 3) + 1] + 1], r % 3, nl)]]

\* fresh storage from memory->create: every double reads as g
FreshStds(n, g) == [i \in 0..(n - 1) |-> [comp \in 0..2 |-> g]]
FreshDerv(n, D, g) == [r \in 0..(3 * n - 1) |-> [nl \in 0..(D - 1) |-> g]]

\* the body of the reset loop for the atoms in rows
ZeroStds(st, rows) ==
  [i \in DOMAIN st |-> IF i \in rows THEN [comp \in 0..2 |-> 0] ELSE st[i]]
ZeroDerv(dd, rows, D) ==
  [r \in DOMAIN dd |-> IF (r \div 3) \in rows THEN [nl \in 0..(D - 1) |-> 0]
                       ELSE dd[r]]

\* number of atoms the reset loop runs over
NTotal(v) == IF v.newton # 0 THEN v.nlocal + v.nghost ELSE v.nlocal

\* the atoms the reset loop zeroes: ilist[ii] for ii < ntotal, where the entries
\* tail of ilist behind the inum that the neighbor list holds are whatever is in
\* memory there
ResetRows(v, tail) ==
  {v.ilist[ii + 1] : ii \in 0..(Min(v.inum, NTotal(v)) - 1)}
    \cup {tail[ii] : ii \in DOMAIN tail}

\* desc_derv after the two statements of the innermost accumulation loop, for
\* all comp and nl: row n_count of B added to atom i and subtracted from atom j
AddPair(dd, i, j, n_count, B, D) ==
  [r \in DOMAIN dd |->
     [nl \in 0..(D - 1) |->
        dd[r][nl]
          + (IF r \div 3 = i THEN B[n_count * 3 + (r % 3)][nl] ELSE 0)
          - (IF r \div 3 = j THEN B[n_count * 3 + (r % 3)][nl] ELSE 0)]]

RECURSIVE NeighborLoop(_, _, _, _, _, _, _, _)
\* the second walk over the neighbors of i, from jj on
NeighborLoop(dd, v, i, jj, n_count, B, cut, D) ==
  IF jj >= Len(v.firstneigh[i + 1]) THEN dd
  ELSE LET j == v.firstneigh[i + 1][jj + 1]
       IN  IF InCutoff(v, i, j, cut)
             THEN NeighborLoop(AddPair(dd, i, j, n_count, B, D), v, i, jj + 1,
                               n_count + 1, B, cut, D)
             ELSE NeighborLoop(dd, v, i, jj + 1, n_count, B, cut, D)

RECURSIVE AccumulateLoop(_, _, _, _, _)
\* the loop over ilist[0..inum-1], from ii on
AccumulateLoop(dd, v, ii, cut, D) ==
  IF ii >= v.inum THEN dd
  ELSE LET i == v.ilist[ii + 1]
       IN  AccumulateLoop(
             NeighborLoop(dd, v, i, 0, 0, B2_env_dervs(v, i, cut, D), cut, D),
             v, ii + 1, cut, D)

\* the factor of the (nl1, nl2) term without the doubling off the diagonal
Weight_NoDoubling(nl1, nl2) == 1

\* the factor of the (nl1, nl2) term
Weight(nl1, nl2) == IF nl1 = nl2 THEN 1 ELSE 2

\* what the nl1, nl2 loops add to stds[i][comp]
UpperSum(dd, M, i, comp, D) ==
  LET d == dd[i * 3 + comp]
  IN  SumTo([nl1 \in 0..(D - 1) |->
               SumTo([nl2 \in 0..(D - 1) |->
                        IF nl2 >= nl1
                          THEN d[nl1] * M[nl1][nl2] * d[nl2] * Weight(nl1, nl2)
                          ELSE 0], D)], D)

RECURSIVE EvaluateLoop(_, _, _, _, _, _)
\* the evaluation loop over ilist[0..inum-1], from ii on
EvaluateLoop(st, dd, v, ii, Ms, D) ==
  IF ii >= v.inum THEN st
  ELSE LET i     == v.ilist[ii + 1]
           itype == v.type[i + 1]
       IN  EvaluateLoop(
             [st EXCEPT ![i] = [comp \in 0..2 |->
                st[i][comp] + UpperSum(dd, Ms[itype], i, comp, D)]],
             dd, v, ii + 1, Ms, D)

RECURSIVE PackLoop(_, _, _, _)
\* pack_reverse_comm's loop from atom i on; buf holds the m values written
PackLoop(st, i, last, buf) ==
  IF i >= last THEN buf
  ELSE PackLoop(st, i + 1, last, buf \o <<st[i][0], st[i][1], st[i][2]>>)

\* pack_reverse_comm(n, first, buf): the buffer and the value returned
pack_reverse_comm(st, n, first) ==
  LET buf == PackLoop(st, first, first + n, <<>>)
  IN  [buf |-> buf, m |-> Len(buf)]

\* the inner statement of unpack_reverse_comm with = for +=
UnpackStore_Overwrite(old, val) == val

\* the statement of unpack_reverse_comm's inner loop
UnpackStore(old, val) == old + val

RECURSIVE UnpackLoop(_, _, _, _, _)
\* unpack_reverse_comm's loop from i on
UnpackLoop(st, i, n, list, buf) ==
  IF i >= n THEN st
  ELSE LET j == list[i + 1]
       IN  UnpackLoop(
             [st EXCEPT ![j] = [comp \in 0..2 |->
                UnpackStore(st[j][comp], buf[3 * i + comp + 1])]],
             i + 1, n, list, buf)

unpack_reverse_comm(st, n, list, buf) == UnpackLoop(st, 0, n, list, buf)

\* local index on process p of the atom with global id g
LocalIndex(v, g) == (CHOOSE k \in 1..Len(v.tag) : v.tag[k] = g) - 1

\* the send list of the owner: its own atoms that the peer holds as ghosts, in
\* the order of the peer's ghosts
SendList(vOwner, vGhost) ==
  [k \in 1..vGhost.nghost |->
     LocalIndex(vOwner, vGhost.tag[vGhost.nlocal + k])]

(***************************************************************************)
(* The pipeline as a state machine.  The processes share nothing but the   *)
(* messages of the reverse communication, so they are run in rank order    *)
(* within each phase.                                                      *)
(***************************************************************************)
\* the state a successful read_file leaves behind for file f
Loaded(f) ==
  /\ entry = "read_file" /\ narg = 0 /\ arg = <<>>
  /\ file = f
  /\ lpc = "done"
  /\ err = ""
  /\ allocated = 0
  /\ n_species = f.ns /\ n_max = f.nm /\ l_max = f.lm /\ beta_size = f.bs
  /\ cutoff = f.cutoff
  /\ n_descriptors = NDescriptors(f.ns, f.nm, f.lm)
  /\ basis_function = "chebyshev"
  /\ cutoff_function = IF f.cutfn = "quadratic" THEN "quadratic_cutoff" ELSE "cos_cutoff"
  /\ beta = [q \in 1..(f.bs * f.ns) |-> Atof(Flatten(f.lines)[q])]
  /\ overrun = <<>>
  /\ beta_matrices = BetaMatrices(beta, f.ns, n_descriptors)

InitStep ==
  /\ \E f \in {g \in PlainFiles : ValidFile(g) /\ g.cutfn = "quadratic"} : Loaded(f)
  /\ \E n \in 1..MaxAtoms : \E bnd \in 0..n : view = Decomposed(n, bnd, n_species)
  /\ nmax = [p \in Procs |-> 0]
  /\ stds = [p \in Procs |-> <<>>]
  /\ desc_derv = [p \in Procs |-> <<>>]
  /\ pc = [p \in Procs |-> "idle"]
  /\ step = 1
  /\ chan = [p \in Procs |-> [buf |-> <<>>, m |-> 0]]

\* process p may move from phase `from` when the lower ranks have left it and
\* the higher ranks have not
Turn(p, from) ==
  /\ pc[p] = from
  /\ \A q \in Procs : q < p => pc[q] # from
  /\ \A q \in Procs : q > p => pc[q] = from
  /\ \A q \in Procs : pc[q] # "crash"

\* compute_peratom, lines 72-113: grow the arrays, then zero the rows of
\* ilist[0..ntotal-1].  An entry of ilist behind inum that names no row of the
\* arrays makes the store fall outside them.
compute_peratom_reset(p) ==
  /\ Turn(p, "idle")
  /\ LET v == view[p]
         D == n_descriptors
     IN  \E g \in {0, MaxGarbage} :
         \E tail \in [v.inum..(NTotal(v) - 1) -> 0..v.atom_nmax] :
           LET grow == v.atom_nmax > nmax[p]
               st0  == IF grow THEN FreshStds(v.atom_nmax, g) ELSE stds[p]
               dd0  == IF grow THEN FreshDerv(v.atom_nmax, D, g) ELSE desc_derv[p]
               rows == ResetRows(v, tail)
           IN  /\ nmax' = [nmax EXCEPT ![p] = IF grow THEN v.atom_nmax ELSE @]
               /\ stds' = [stds EXCEPT ![p] = ZeroStds(st0, rows)]
               /\ desc_derv' = [desc_derv EXCEPT ![p] = ZeroDerv(dd0, rows, D)]
               /\ pc' = [pc EXCEPT ![p] =
                           IF \E r \in rows : r >= nmax'[p] THEN "crash" ELSE "reset"]
  /\ UNCHANGED <<view, step, chan>>
  /\ UNCHANGED loadVars

\* compute_peratom, lines 115-172: the accumulation pass
compute_peratom_accumulate(p) ==
  /\ Turn(p, "reset")
  /\ desc_derv' = [desc_derv EXCEPT ![p] =
                     AccumulateLoop(@, view[p], 0, cutoff, n_descriptors)]
  /\ pc' = [pc EXCEPT ![p] = "accumulated"]
  /\ UNCHANGED <<view, nmax, stds, step, chan>>
  /\ UNCHANGED loadVars

\* compute_peratom, lines 173-193: the uncertainty evaluation
compute_peratom_evaluate(p) ==
  /\ Turn(p, "accumulated")
  /\ stds' = [stds EXCEPT ![p] =
                EvaluateLoop(@, desc_derv[p], view[p], 0, beta_matrices, n_descriptors)]
  /\ pc' = [pc EXCEPT ![p] = "evaluated"]
  /\ UNCHANGED <<view, nmax, desc_derv, step, chan>>
  /\ UNCHANGED loadVars

\* the host's reverse communication, sending side: process p packs its ghosts
reverse_comm_pack(p) ==
  /\ Turn(p, "evaluated")
  /\ chan' = [chan EXCEPT ![p] =
                pack_reverse_comm(stds[p], view[p].nghost, view[p].nlocal)]
  /\ pc' = [pc EXCEPT ![p] = "packed"]
  /\ UNCHANGED <<view, nmax, stds, desc_derv, step>>
  /\ UNCHANGED loadVars

\* the host's reverse communication, receiving side: process p unpacks what its
\* peer packed onto the atoms of its send list
reverse_comm_unpack(p) ==
  /\ Turn(p, "packed")
  /\ LET list == SendList(view[p], view[Peer(p)])
     IN  stds' = [stds EXCEPT ![p] =
                    unpack_reverse_comm(@, Len(list), list, chan[Peer(p)].buf)]
  /\ pc' = [pc EXCEPT ![p] = "unpacked"]
  /\ UNCHANGED <<view, nmax, desc_derv, step, chan>>
  /\ UNCHANGED loadVars

\* the host goes on to the next step, with or without a reverse communication
next_step ==
  /\ \/ \A p \in Procs : pc[p] = "evaluated"
     \/ \A p \in Procs : pc[p] = "unpacked"
  /\ step < MaxSteps
  /\ step' = step + 1
  /\ pc' = [p \in Procs |-> "idle"]
  /\ UNCHANGED <<view, nmax, stds, desc_derv, chan>>
  /\ UNCHANGED loadVars

NextStep ==
  \/ \E p \in Procs : compute_peratom_reset(p)
  \/ \E p \in Procs : compute_peratom_accumulate(p)
  \/ \E p \in Procs : compute_peratom_evaluate(p)
  \/ \E p \in Procs : reverse_comm_pack(p)
  \/ \E p \in Procs : reverse_comm_unpack(p)
  \/ next_step

SpecStep == InitStep /\ [][NextStep]_vars

(***************************************************************************)
(* Properties of the loader (SpecLoad).                                    *)
(***************************************************************************)
\* position in the body of the raw value of entry (i, j), i <= j, of species k
\* (all from 0): species after species, each upper triangle row by row
PackedPos(k, i, j, D) == k * Triangle(D) + i * D - ((i * (i - 1)) \div 2) + (j - i)

\* the raw value at a packed position of the file, as a double
RawAt(f, pos) == Atof(Flatten(f.lines)[pos + 1])

\* C1: after read_file on a valid potential file every species has its matrix;
\* its diagonal entries are the raw values at their packed positions, its
\* off-diagonal entries (i, j) and (j, i) are both half the raw value at the
\* packed position of (i, j), so the matrix is symmetric.
C1_SymmetricReconstruction ==
  (lpc = "done" /\ ValidFile(file)) =>
    LET D == DescriptorCount(file.ns, file.nm, file.lm)
    IN  /\ Len(beta_matrices) = file.ns
        /\ \A k \in 0..(file.ns - 1) : \A i \in 0..(D - 1) : \A j \in i..(D - 1) :
             LET M   == beta_matrices[k + 1]
                 raw == RawAt(file, PackedPos(k, i, j, D))
             IN  /\ i = j => M[i][i] = raw
                 /\ i # j => /\ 2 * M[i][j] = raw
                             /\ M[j][i] = M[i][j]
        /\ \A k \in 1..file.ns : \A i, j \in 0..(D - 1) :
             beta_matrices[k][i][j] = beta_matrices[k][j][i]

\* C1 witness: a valid file with two species and a 3 x 3 matrix whose
\* off-diagonal entries are not zero has been loaded
C1_Witness ==
  /\ lpc = "done" /\ ValidFile(file)
  /\ file.ns = 2 /\ n_descriptors = 3
  /\ beta_matrices[2][0][2] # 0
  /\ beta_matrices[2][0][2] # beta_matrices[1][0][2]

\* C3: once the header is read (n_species is set), a declared beta_size different from D(D+1)/2
\* has ended the load with the configuration error and neither beta nor any
\* matrix exists; an equal beta_size passes the check.
C3_BetaSizeCheck ==
  (lpc \notin {"constructor", "coeff", "read_file"} /\ n_species # 0) =>
    LET R == file.nm * file.ns
        D == ((R * (R + 1)) \div 2) * (file.lm + 1)
    IN  IF file.bs # (D * (D + 1)) \div 2
          THEN /\ lpc = "error"
               /\ err = "Beta size doesn't match the number of descriptors."
               /\ beta = "NULL"
               /\ beta_matrices = <<>>
          ELSE /\ lpc # "error"
               /\ err = ""
               /\ n_descriptors = D

\* C3 witness: the file declaring n_species=1, n_max=1, l_max=0, beta_size=2
\* has been rejected
C3_Witness ==
  /\ file.readable /\ file.ns = 1 /\ file.nm = 1 /\ file.lm = 0 /\ file.bs = 2
  /\ lpc = "error"

UnknownToken(f) ==
  f.radial # "chebyshev" \/ f.cutfn \notin {"quadratic", "cosine"}

\* C4: a file whose radial-basis or cutoff-function token is not recognized is
\* rejected with a configuration error, and no load goes past the resolution
\* step with the basis function or the cutoff function unset.
C4_UnknownTokenRejected ==
  /\ (UnknownToken(file) /\ lpc \in {"parse_beta", "fill", "done", "crash"})
       => FALSE
  /\ lpc \in {"parse_beta", "fill", "done"}
       => (basis_function # "unset" /\ cutoff_function # "unset")

\* C5: the constructor, given exactly "*", "*" and the path of a readable valid
\* file, completes without error with the file loaded; given anything else it
\* raises a configuration error and loads nothing.
C5_Initialization ==
  (entry = "constructor" /\ lpc \in {"done", "error", "crash"}) =>
    IF narg = 3 /\ arg[1] = "*" /\ arg[2] = "*"
      THEN ValidFile(file) =>
             /\ lpc = "done" /\ err = ""
             /\ Len(beta_matrices) = file.ns
      ELSE /\ lpc = "error" /\ err # ""
           /\ beta = "NULL" /\ beta_matrices = <<>>

\* C10: grab ends having stored exactly n values, the first n tokens of the
\* body in file order, at indices 0..n-1, and stores nothing at an index >= n,
\* whatever the split of the tokens over lines.
C10_GrabExactlyN ==
  lpc \in {"fill", "crash", "done"} =>
    LET n    == beta_size * n_species
        toks == Flatten(file.lines)
    IN  /\ lpc # "crash"
        /\ overrun = <<>>
        /\ Len(beta) = n
        /\ Len(toks) >= n
        /\ \A q \in 1..n : beta[q] = Atof(toks[q])

(***************************************************************************)
(* Properties of the per-step pipeline (SpecStep).                         *)
(***************************************************************************)
NAll(v) == v.nlocal + v.nghost

\* the derivative table of the same atoms evaluated on a single process
ReferenceTable ==
  LET v == Undecomposed(Len(view[1].tag), n_species)
  IN  AccumulateLoop(ZeroDerv(FreshDerv(v.atom_nmax, n_descriptors, 0),
                              0..(v.atom_nmax - 1), n_descriptors),
                     v, 0, cutoff, n_descriptors)

\* owned atom i of process p has a partner inside the cutoff that p holds as a ghost
CrossesBoundary(p, i) ==
  \E j \in view[p].nlocal..(NAll(view[p]) - 1) : InCutoff(view[p], i, j, cutoff)

\* C2: after the ghost reduction of a step, the derivative row of every owned
\* atom whose interactions cross the domain boundary equals the row of the same
\* atom evaluated on a single process without decomposition.
C2_ReducedRowsMatchSingleProcess ==
  \A p \in Procs :
    pc[p] = "unpacked" =>
      \A i \in 0..(view[p].nlocal - 1) :
        CrossesBoundary(p, i) =>
          \A comp \in 0..2 : \A nl \in 0..(n_descriptors - 1) :
            desc_derv[p][i * 3 + comp][nl]
              = ReferenceTable[(view[p].tag[i + 1] - 1) * 3 + comp][nl]

\* the full quadratic form over all D x D pairs
FullQuadratic(d, M, D) ==
  SumTo([nl1 \in 0..(D - 1) |->
           SumTo([nl2 \in 0..(D - 1) |-> d[nl1] * M[nl1][nl2] * d[nl2]], D)], D)

\* C6: what the evaluator stores in stds[i][c] of an owned atom i is the full
\* quadratic form of its derivative row with the matrix of its species.
C6_UpperTriangleIsFullQuadraticForm ==
  \A p \in Procs :
    pc[p] = "evaluated" =>
      \A i \in 0..(view[p].nlocal - 1) : \A comp \in 0..2 :
        stds[p][i][comp]
          = FullQuadratic(desc_derv[p][i * 3 + comp],
                          beta_matrices[view[p].type[i + 1]], n_descriptors)

\* C6 witness: an evaluated owned atom with two different descriptor columns
\* that both carry a derivative and are coupled by an off-diagonal entry
C6_Witness ==
  \E p \in Procs :
    /\ pc[p] = "evaluated"
    /\ \E i \in 0..(view[p].nlocal - 1) : \E comp \in 0..2 :
       \E nl1, nl2 \in 0..(n_descriptors - 1) :
         /\ nl1 # nl2
         /\ desc_derv[p][i * 3 + comp][nl1] # 0
         /\ desc_derv[p][i * 3 + comp][nl2] # 0
         /\ beta_matrices[view[p].type[i + 1]][nl1][nl2] # 0
         /\ stds[p][i][comp] # 0

\* C7: after the accumulation pass and before any reduction, for every
\* component and descriptor column the entries of the derivative table summed
\* over all atoms, owned and ghost, are zero.
C7_ColumnSumsZero ==
  \A p \in Procs :
    pc[p] = "accumulated" =>
      \A comp \in 0..2 : \A nl \in 0..(n_descriptors - 1) :
        SumTo([i \in 0..(NAll(view[p]) - 1) |-> desc_derv[p][i * 3 + comp][nl]],
              NAll(view[p])) = 0

\* C8: pack_reverse_comm writes the 3 values of each atom first..first+n-1 in
\* atom order then component order, returns 3n and changes no per-atom array;
\* unpack_reverse_comm adds the k-th triple onto the row of atom list[k] and
\* leaves every other row as it was.
C8_PackUnpackFrame ==
  [][\A p \in Procs :
       /\ (pc[p] = "evaluated" /\ pc'[p] = "packed") =>
            LET n     == view[p].nghost
                first == view[p].nlocal
            IN  /\ chan'[p].m = 3 * n
                /\ Len(chan'[p].buf) = 3 * n
                /\ \A k \in 0..(n - 1) : \A comp \in 0..2 :
                     chan'[p].buf[3 * k + comp + 1] = stds[p][first + k][comp]
                /\ stds' = stds
                /\ desc_derv' = desc_derv
       /\ (pc[p] = "packed" /\ pc'[p] = "unpacked") =>
            LET list == SendList(view[p], view[Peer(p)])
                buf  == chan[Peer(p)].buf
            IN  /\ \A j \in 0..(NAll(view[p]) - 1) : \A comp \in 0..2 :
                     stds'[p][j][comp] =
                       stds[p][j][comp]
                         + SumTo([k \in 0..(Len(list) - 1) |->
                                    IF list[k + 1] = j THEN buf[3 * k + comp + 1]
                                    ELSE 0], Len(list))
                /\ stds'[Peer(p)] = stds[Peer(p)]
                /\ desc_derv' = desc_derv
                /\ chan' = chan
    ]_vars

\* C8 witness: a process has unpacked a buffer its peer packed from a ghost row
\* that was not zero, onto an owned row that was not zero either
C8_Witness ==
  \E p \in Procs :
    /\ pc[p] = "unpacked"
    /\ view[Peer(p)].nghost > 0
    /\ chan[Peer(p)].m = 3 * view[Peer(p)].nghost
    /\ \E k \in 0..(view[Peer(p)].nghost - 1) :
         LET j == SendList(view[p], view[Peer(p)])[k + 1]
         IN  /\ chan[Peer(p)].buf[3 * k + 1] # 0
             /\ stds[p][j][0] # chan[Peer(p)].buf[3 * k + 1]

\* C9: at the top of every step, before anything is accumulated, the
\* derivative row of every atom index in [0, nlocal + nghost), owned and ghost,
\* is zero.
C9_AllRowsZeroAfterReset ==
  \A p \in Procs :
    pc[p] = "reset" =>
         \A i \in 0..(NAll(view[p]) - 1) : \A comp \in 0..2 :
           \A nl \in 0..(n_descriptors - 1) : desc_derv[p][i * 3 + comp][nl] = 0

(***************************************************************************)
(* Consistency of the two specifications: the loaded state the pipeline    *)
(* starts from is the state read_file ends in.                             *)
(***************************************************************************)
LoadedIsWhatReadFileLeaves ==
  (lpc = "done" /\ ValidFile(file)) =>
    /\ n_species = file.ns /\ n_max = file.nm /\ l_max = file.lm
    /\ beta_size = file.bs /\ cutoff = file.cutoff
    /\ n_descriptors = NDescriptors(file.ns, file.nm, file.lm)
    /\ basis_function = "chebyshev"
    /\ cutoff_function = IF file.cutfn = "quadratic" THEN "quadratic_cutoff" ELSE "cos_cutoff"
    /\ beta = [q \in 1..(file.bs * file.ns) |-> Atof(Flatten(file.lines)[q])]
    /\ overrun = <<>> /\ err = ""
    /\ beta_matrices = BetaMatrices(beta, file.ns, n_descriptors)

====
